---- MODULE Spec2Model ----
(***************************************************************************)
(* Model of the transform stage of the retail-store ETL pipeline           *)
(* (src/src/transform/transform.py with src/src/modules/constants.py).     *)
(*                                                                         *)
(* A text is a sequence of one-character strings.  A cell is a record      *)
(* [k, s, n]: k = "NaN" is the true-missing marker (np.nan / NaT),         *)
(* k = "str" a Python str with characters s, k = "num" a float whose value *)
(* is n tenths, k = "date" a timestamp yyyymmdd = n.  A dataset is a       *)
(* record [cols, rows]: the column labels in order and the rows, each a    *)
(* sequence of cells aligned with cols.  Series are object-dtype and        *)
(* astype(str) is the pandas 1.x/2.x conversion (np.nan becomes "nan").    *)
(* Logging calls are not part of the state.                                *)
(***************************************************************************)
EXTENDS Integers, Sequences, FiniteSets

VARIABLES raw, df, arg, pc, err, stats, stages, call, audit_arg

vars == <<raw, df, arg, pc, err, stats, stages, call, audit_arg>>

\* ---------------------------------------------------------------- bounds
MaxRows == 3
MaxTextRows == 2

\* ------------------------------------------------------------ characters
LowerAlpha == <<"a","b","c","d","e","f","g","h","i","j","k","l","m",
                "n","o","p","q","r","s","t","u","v","w","x","y","z">>
UpperAlpha == <<"A","B","C","D","E","F","G","H","I","J","K","L","M",
                "N","O","P","Q","R","S","T","U","V","W","X","Y","Z">>
Digits == <<"0","1","2","3","4","5","6","7","8","9">>
Whitespace == {" ", "\t"}

IsUpper(c) == \E i \in 1..26 : UpperAlpha[i] = c
IsLower(c) == \E i \in 1..26 : LowerAlpha[i] = c
IsCased(c) == IsUpper(c) \/ IsLower(c)
Lower(c) == IF IsUpper(c) THEN LowerAlpha[CHOOSE i \in 1..26 : UpperAlpha[i] = c] ELSE c
Upper(c) == IF IsLower(c) THEN UpperAlpha[CHOOSE i \in 1..26 : LowerAlpha[i] = c] ELSE c

\* ------------------------------------------------------- str operations
\* str.strip(): drop leading and trailing whitespace
RECURSIVE LStrip(_)
LStrip(s) == IF s # <<>> /\ Head(s) \in Whitespace THEN LStrip(Tail(s)) ELSE s
RECURSIVE RStrip(_)
RStrip(s) ==
  IF s # <<>> /\ s[Len(s)] \in Whitespace THEN RStrip(SubSeq(s, 1, Len(s) - 1)) ELSE s
Strip(s) == RStrip(LStrip(s))

\* str.lower()
StrLower(s) == [i \in 1..Len(s) |-> Lower(s[i])]

\* str.title(): a cased character is upper-cased when it follows an uncased
\* character (or starts the text) and lower-cased otherwise
RECURSIVE TitleFrom(_, _, _)
TitleFrom(s, i, prevCased) ==
  IF i > Len(s) THEN <<>>
  ELSE IF IsCased(s[i])
       THEN <<IF prevCased THEN Lower(s[i]) ELSE Upper(s[i])>> \o TitleFrom(s, i + 1, TRUE)
       ELSE <<s[i]>> \o TitleFrom(s, i + 1, FALSE)
Title(s) == TitleFrom(s, 1, FALSE)

\* str.replace(' ', '_', regex=False): every space character, one for one
ReplaceSpaces(s) == [i \in 1..Len(s) |-> IF s[i] = " " THEN "_" ELSE s[i]]

\* ------------------------------------------------------------- constants
Transaction_Id == <<"T","r","a","n","s","a","c","t","i","o","n","_","I","d">>
Customer_Id == <<"C","u","s","t","o","m","e","r","_","I","d">>
Category == <<"C","a","t","e","g","o","r","y">>
Item == <<"I","t","e","m">>
Price_Per_Unit == <<"P","r","i","c","e","_","P","e","r","_","U","n","i","t">>
Quantity == <<"Q","u","a","n","t","i","t","y">>
Total_Spent == <<"T","o","t","a","l","_","S","p","e","n","t">>
Payment_Method == <<"P","a","y","m","e","n","t","_","M","e","t","h","o","d">>
Location == <<"L","o","c","a","t","i","o","n">>
Transaction_Date == <<"T","r","a","n","s","a","c","t","i","o","n","_","D","a","t","e">>
Discount_Applied == <<"D","i","s","c","o","u","n","t","_","A","p","p","l","i","e","d">>

EXPECTED_COLS == <<Transaction_Id, Customer_Id, Category, Item, Price_Per_Unit, Quantity,
                   Total_Spent, Payment_Method, Location, Transaction_Date, Discount_Applied>>
STRING_COLS == <<Transaction_Id, Customer_Id, Category, Item, Payment_Method, Location>>
NUMERIC_COLS == <<Price_Per_Unit, Quantity, Total_Spent>>

\* the default of data_overview's invalid_values
DefaultInvalidValues == << <<"e","r","r","o","r">>, <<"u","n","k","n","o","w","n">>,
                           <<"n","a","n">>, <<"n","o","n","e">>, <<"n","a">>, <<>> >>

\* ------------------------------------------------------------ sequences
Range(f) == {f[i] : i \in DOMAIN f}
RECURSIVE Flatten(_)
Flatten(ss) == IF ss = <<>> THEN <<>> ELSE Head(ss) \o Flatten(Tail(ss))
Reverse(s) == [i \in 1..Len(s) |-> s[Len(s) + 1 - i]]
\* the positions of seq, in order, whose element satisfies the test
RECURSIVE PositionsOf(_, _, _)
PositionsOf(seq, x, i) ==
  IF i > Len(seq) THEN <<>>
  ELSE (IF seq[i] = x THEN <<i>> ELSE <<>>) \o PositionsOf(seq, x, i + 1)

\* ----------------------------------------------------------------- cells
NaN == [k |-> "NaN", s |-> <<>>, n |-> 0]
Str(t) == [k |-> "str", s |-> t, n |-> 0]
Num(t) == [k |-> "num", s |-> <<>>, n |-> t]
Date(t) == [k |-> "date", s |-> <<>>, n |-> t]
isna(c) == c.k = "NaN"
notna(c) == ~isna(c)

NoDataset == [cols |-> <<>>, rows |-> <<>>]
NoErr == [type |-> "none", cols |-> <<>>]
NoStats == [row_count |-> -1, missing_values |-> <<>>]
\* an argument left at its default None, or given
None == [none |-> TRUE, values |-> <<>>]
Given(v) == [none |-> FALSE, values |-> v]

\* ------------------------------------------------------- rename_columns
\* variant: a run of spaces becomes a single underscore
RECURSIVE CollapseSpaces(_)
CollapseSpaces(s) ==
  IF s = <<>> THEN <<>>
  ELSE IF Head(s) = " "
       THEN IF Len(s) >= 2 /\ s[2] = " " THEN CollapseSpaces(Tail(s))
            ELSE <<"_">> \o CollapseSpaces(Tail(s))
       ELSE <<Head(s)>> \o CollapseSpaces(Tail(s))
NormalizeLabelCollapsing(label) == CollapseSpaces(Title(Strip(label)))
\* df.columns.str.strip().str.title().str.replace(' ', '_', regex=False)
NormalizeLabel(label) == ReplaceSpaces(Title(Strip(label)))
NormalizeColumns(cols) == [i \in 1..Len(cols) |-> NormalizeLabel(cols[i])]

\* variant: the listing stops at the first missing column
MissingColumnsFirstOnly(cols) ==
  LET Keep(c) == c \notin Range(cols)
      all == SelectSeq(EXPECTED_COLS, Keep)
  IN IF all = <<>> THEN <<>> ELSE <<all[1]>>
\* [col for col in EXPECTED_COLS if col not in df.columns]
MissingColumns(cols) ==
  LET Keep(c) == c \notin Range(cols) IN SelectSeq(EXPECTED_COLS, Keep)
\* [col for col in df.columns if col not in EXPECTED_COLS]
ExtraColumns(cols) ==
  LET Keep(c) == c \notin Range(EXPECTED_COLS) IN SelectSeq(cols, Keep)

\* df[EXPECTED_COLS]: for each requested label in turn, every column that
\* carries it (a label carried by two columns selects both)
SelectColumns(d, labels) ==
  LET idx == Flatten([j \in 1..Len(labels) |-> PositionsOf(d.cols, labels[j], 1)])
  IN [cols |-> [j \in 1..Len(idx) |-> d.cols[idx[j]]],
      rows |-> [r \in 1..Len(d.rows) |-> [j \in 1..Len(idx) |-> d.rows[r][idx[j]]]]]

rename_columns(d) ==
  LET renamed == [cols |-> NormalizeColumns(d.cols), rows |-> d.rows]
      missing_columns == MissingColumns(renamed.cols)
  IN IF missing_columns # <<>>
     THEN [ok |-> FALSE, df |-> NoDataset,
           err |-> [type |-> "ValueError", cols |-> missing_columns]]
     ELSE [ok |-> TRUE, df |-> SelectColumns(renamed, EXPECTED_COLS), err |-> NoErr]

\* ------------------------------------------------------ cell conversions
RECURSIVE IntDigits(_)
IntDigits(v) ==
  IF v < 10 THEN <<Digits[v + 1]>> ELSE IntDigits(v \div 10) \o <<Digits[(v % 10) + 1]>>
\* str(float): n tenths prints as "<integer part>.<tenth>"
FloatToStr(n) == IntDigits(n \div 10) \o <<".">> \o <<Digits[(n % 10) + 1]>>
DateToStr(n) ==
  IntDigits(n \div 10000) \o <<"-">> \o <<Digits[((n \div 1000) % 10) + 1]>>
    \o <<Digits[((n \div 100) % 10) + 1]>> \o <<"-">>
    \o <<Digits[((n \div 10) % 10) + 1]>> \o <<Digits[(n % 10) + 1]>>

\* Series.astype(str) on one cell: np.nan becomes the text "nan"
AsTypeStr(c) ==
  CASE c.k = "NaN" -> Str(<<"n","a","n">>)
    [] c.k = "str" -> c
    [] c.k = "num" -> Str(FloatToStr(c.n))
    [] OTHER -> Str(DateToStr(c.n))

IsDigit(c) == \E i \in 1..10 : Digits[i] = c
DigitVal(c) == (CHOOSE i \in 1..10 : Digits[i] = c) - 1
AllDigits(s) == \A i \in 1..Len(s) : IsDigit(s[i])
RECURSIVE IntVal(_)
IntVal(s) == IF s = <<>> THEN 0 ELSE 10 * IntVal(SubSeq(s, 1, Len(s) - 1)) + DigitVal(s[Len(s)])

\* pd.to_numeric(..., errors='coerce') on one text: "<digits>" or
\* "<digits>.<digit>" parses, any other text of the modelled inputs is NaN
ParseFloat(s) ==
  LET dots == PositionsOf(s, ".", 1)
  IN IF dots = <<>>
     THEN IF s # <<>> /\ AllDigits(s) THEN Num(10 * IntVal(s)) ELSE NaN
     ELSE LET ip == SubSeq(s, 1, dots[1] - 1)
              fp == SubSeq(s, dots[1] + 1, Len(s))
          IN IF ip # <<>> /\ AllDigits(ip) /\ AllDigits(fp) /\ Len(fp) <= 1
             THEN Num(10 * IntVal(ip) + IntVal(fp)) ELSE NaN
ToNumeric(c) ==
  CASE c.k = "num" -> c
    [] c.k = "str" -> ParseFloat(c.s)
    [] OTHER -> NaN

DaysIn(y, m) ==
  IF m \in {4, 6, 9, 11} THEN 30
  ELSE IF m = 2 THEN (IF (y % 4 = 0 /\ y % 100 # 0) \/ y % 400 = 0 THEN 29 ELSE 28)
  ELSE 31
\* pd.to_datetime(..., errors='coerce') on one text: "YYYY-MM-DD" parses,
\* any other text of the modelled inputs is NaT
ParseDate(s) ==
  IF Len(s) = 10 /\ s[5] = "-" /\ s[8] = "-"
     /\ AllDigits(SubSeq(s, 1, 4)) /\ AllDigits(SubSeq(s, 6, 7)) /\ AllDigits(SubSeq(s, 9, 10))
  THEN LET y == IntVal(SubSeq(s, 1, 4))
           m == IntVal(SubSeq(s, 6, 7))
           d == IntVal(SubSeq(s, 9, 10))
       IN IF m \in 1..12 /\ d >= 1 /\ d <= DaysIn(y, m)
          THEN Date(y * 10000 + m * 100 + d) ELSE NaN
  ELSE NaN
ToDatetime(c) ==
  CASE c.k = "date" -> c
    [] c.k = "str" -> ParseDate(c.s)
    [] c.k = "num" -> Date(19700101)
    [] OTHER -> NaN

\* Series.replace(values, np.nan) / Series.replace(' ', '_'): a cell is
\* replaced when its whole value equals one of the values
ReplaceValues(c, values, by) == IF c.k = "str" /\ c.s \in Range(values) THEN by ELSE c

\* -------------------------------------------------------- data_overview
\* string columns: .astype(str).str.strip().str.lower().replace(invalid_values, np.nan)
AuditStringCell(c, invalid_values) ==
  ReplaceValues(Str(StrLower(Strip(AsTypeStr(c).s))), invalid_values, NaN)
\* variant: the numeric loop lower-cases as the string loop does
AuditNumericCellLowered(c, invalid_values) ==
  ReplaceValues(Str(StrLower(Strip(AsTypeStr(c).s))), invalid_values, NaN)
\* numeric columns: .astype(str).str.strip().replace(invalid_values, np.nan)
AuditNumericCell(c, invalid_values) ==
  ReplaceValues(Str(Strip(AsTypeStr(c).s)), invalid_values, NaN)

\* the local copy of data_overview after its two loops
AuditedCopy(d, invalid_values) ==
  [cols |-> d.cols,
   rows |-> [r \in 1..Len(d.rows) |-> [j \in 1..Len(d.cols) |->
              IF d.cols[j] \in Range(STRING_COLS)
              THEN AuditStringCell(d.rows[r][j], invalid_values)
              ELSE IF d.cols[j] \in Range(NUMERIC_COLS)
                   THEN AuditNumericCell(d.rows[r][j], invalid_values)
                   ELSE d.rows[r][j]]]]

\* df.isna().sum(): per column, the number of true-missing cells
MissingSummary(d) ==
  [c \in Range(d.cols) |->
     Cardinality({r \in 1..Len(d.rows) :
                    \E j \in 1..Len(d.cols) : d.cols[j] = c /\ isna(d.rows[r][j])})]

\* returns the stats dictionary only; the caller's dataset is not changed
data_overview(d, iv) ==
  LET copy == AuditedCopy(d, IF iv.none THEN DefaultInvalidValues ELSE iv.values)
  IN [row_count |-> Len(copy.rows), missing_values |-> MissingSummary(copy)]

\* --------------------------------------------------- convert_data_types
\* string columns: .astype(str).replace(' ', '_')
ConvertStringCell(c) == ReplaceValues(AsTypeStr(c), << <<" ">> >>, Str(<<"_">>))

convert_data_types(d) ==
  [cols |-> d.cols,
   rows |-> [r \in 1..Len(d.rows) |-> [j \in 1..Len(d.cols) |->
              IF d.cols[j] \in Range(STRING_COLS) THEN ConvertStringCell(d.rows[r][j])
              ELSE IF d.cols[j] \in Range(NUMERIC_COLS) THEN ToNumeric(d.rows[r][j])
              ELSE IF d.cols[j] = Transaction_Date THEN ToDatetime(d.rows[r][j])
              ELSE d.rows[r][j]]]]

\* ------------------------------------------------- clean_price_per_unit
ColumnOf(d, label) ==
  LET j == CHOOSE i \in 1..Len(d.cols) : d.cols[i] = label
  IN [r \in 1..Len(d.rows) |-> d.rows[r][j]]

\* str.split('_')
RECURSIVE Split(_, _)
Split(s, sep) ==
  LET hits == PositionsOf(s, sep, 1)
  IN IF hits = <<>> THEN <<s>>
     ELSE <<SubSeq(s, 1, hits[1] - 1)>> \o Split(SubSeq(s, hits[1] + 1, Len(s)), sep)

\* df['Item'].str.split('_').str[1].astype(str)
ItemNumberCell(c) ==
  LET second == IF c.k = "str" /\ Len(Split(c.s, "_")) >= 2
                THEN Str(Split(c.s, "_")[2]) ELSE NaN
  IN AsTypeStr(second)

\* .dropna(subset=[...]).set_index('Item_Number')['Price_Per_Unit'].to_dict():
\* the rows are visited in order and a repeated key is overwritten
RECURSIVE ToDict(_, _, _, _)
ToDict(keys, prices, i, m) ==
  IF i > Len(keys) THEN m
  ELSE IF notna(keys[i]) /\ notna(prices[i])
       THEN ToDict(keys, prices, i + 1,
                   [k \in (DOMAIN m) \cup {keys[i].s} |->
                      IF k = keys[i].s THEN prices[i] ELSE m[k]])
       ELSE ToDict(keys, prices, i + 1, m)
EmptyDict == [k \in {} |-> NaN]
PriceMap(keys, prices) == ToDict(keys, prices, 1, EmptyDict)

\* Series.map(dict): a key the dictionary lacks maps to NaN
MapGet(m, c) == IF c.k = "str" /\ c.s \in DOMAIN m THEN m[c.s] ELSE NaN

\* variant: the condition of np.where drops price.isna()
ImputeCellAlways(price, item_number, m) ==
  IF notna(item_number) /\ item_number.s \in DOMAIN m THEN MapGet(m, item_number) ELSE price
\* np.where(price.isna() & item_number.notna(), item_number.map(price_map), price)
ImputeCell(price, item_number, m) ==
  IF isna(price) /\ notna(item_number) THEN MapGet(m, item_number) ELSE price

clean_price_per_unit(d) ==
  LET item_number == [r \in 1..Len(d.rows) |-> ItemNumberCell(ColumnOf(d, Item)[r])]
      price == ColumnOf(d, Price_Per_Unit)
      price_map == PriceMap(item_number, price)
  IN [cols |-> d.cols,
      rows |-> [r \in 1..Len(d.rows) |-> [j \in 1..Len(d.cols) |->
                 IF d.cols[j] = Price_Per_Unit
                 THEN ImputeCell(price[r], item_number[r], price_map)
                 ELSE d.rows[r][j]]]]

\* -------------------------------------------------------- transform_data
\* The body of transform_data.  df_clean is a local name of the function
\* (it is assigned in the body), and it has no value when line 155 reads it
\* as the argument of rename_columns: the read raises UnboundLocalError
\* before any stage is called.
transform_data(d) ==
  LET df_clean == [bound |-> FALSE, val |-> NoDataset]
  IN IF ~df_clean.bound
     THEN [ok |-> FALSE, df |-> NoDataset, stages |-> <<>>,
           err |-> [type |-> "UnboundLocalError", cols |-> <<>>]]
     ELSE LET r1 == rename_columns(df_clean.val)
          IN IF ~r1.ok
             THEN [ok |-> FALSE, df |-> NoDataset, stages |-> <<"rename_columns">>,
                   err |-> r1.err]
             ELSE [ok |-> TRUE,
                   df |-> clean_price_per_unit(convert_data_types(r1.df)),
                   stages |-> <<"rename_columns", "data_overview",
                                "convert_data_types", "clean_price_per_unit">>,
                   err |-> NoErr]

\* ---------------------------------------------------------------- inputs
TxtTxn == <<"T","X","N","_","1">>
TxtCust == <<"C","U","S","T","_","1">>
TxtFood == <<"F","o","o","d">>
TxtItem7 == <<"I","t","e","m","_","7">>
TxtItem9 == <<"I","t","e","m","_","9">>
TxtItemNan == <<"I","t","e","m","_","n","a","n">>
TxtMilk == <<"M","i","l","k">>
TxtCash == <<"C","a","s","h">>
TxtCreditCard == <<"C","r","e","d","i","t"," ","C","a","r","d">>
TxtSpace == <<" ">>
TxtPadUnknown == <<" ","U","n","k","n","o","w","n"," ">>
TxtUnknownLower == <<"u","n","k","n","o","w","n">>
TxtUnknownTitle == <<"U","n","k","n","o","w","n">>
TxtPadError == <<" ","E","R","R","O","R"," ">>
TxtOnline == <<"O","n","l","i","n","e">>
TxtDate == <<"2","0","2","4","-","0","1","-","0","5">>
TxtBadDate == <<"2","0","2","4","-","0","2","-","3","0">>
TxtTrue == <<"T","r","u","e">>
TxtX == <<"x">>

\* one row of cells under EXPECTED_COLS
DefaultRow == <<Str(TxtTxn), Str(TxtCust), Str(TxtFood), Str(TxtItem7), Num(35), Num(20),
                Num(70), Str(TxtCash), Str(TxtOnline), Str(TxtDate), Str(TxtTrue)>>

PaymentPool == {Str(TxtCreditCard), Str(TxtSpace), Str(TxtPadUnknown)}
PriceTextPool == {Str(TxtUnknownLower), Str(TxtUnknownTitle), Str(TxtPadError)}

\* rows that vary the item and the (numeric or missing) price
ItemPricePool ==
  ({Str(TxtItem7)} \X {NaN, Num(35), Num(50)})
  \cup ({Str(TxtMilk), NaN} \X {NaN, Num(35)})
  \cup {<<Str(TxtItemNan), NaN>>}
PriceRowPool == {[DefaultRow EXCEPT ![4] = ip[1], ![5] = ip[2]] : ip \in ItemPricePool}
\* rows that vary the text of a string-role cell or of a numeric-role cell
TextRowPool ==
  {[DefaultRow EXCEPT ![8] = m, ![10] = Str(TxtBadDate)] : m \in PaymentPool}
  \cup {[DefaultRow EXCEPT ![4] = Str(TxtItem9), ![5] = p] : p \in PriceTextPool}

\* datasets with the canonical labels
DataInputs ==
  {[cols |-> EXPECTED_COLS, rows |-> rs] :
     rs \in UNION {[1..n -> PriceRowPool] : n \in 1..MaxRows}
            \cup UNION {[1..n -> TextRowPool] : n \in 1..MaxTextRows}}

\* raw labels: for a column, the labels the file carries for it
LblTidThree == <<" ","t","r","a","n","s","a","c","t","i","o","n"," "," "," ","i","d"," ">>
LblTidOne == <<" ","t","r","a","n","s","a","c","t","i","o","n"," ","i","d"," ">>
LblTidUpper == <<"T","R","A","N","S","A","C","T","I","O","N","_","I","D">>
LblItemLower == <<"i","t","e","m">>
LblItemPad == <<" ","I","T","E","M">>
LblPriceSpaced == <<"p","r","i","c","e"," ","p","e","r"," ","u","n","i","t","\t">>
LblExtra == <<"S","t","o","r","e"," ","R","e","g","i","o","n">>

TidVariants == {<<Transaction_Id>>, <<LblTidThree>>, <<LblTidOne>>, <<LblTidUpper>>, <<>>,
                <<Transaction_Id, LblTidOne>>}
ItemVariants == {<<Item>>, <<LblItemLower>>, <<>>, <<Item, LblItemPad>>}
PriceVariants == {<<Price_Per_Unit>>, <<LblPriceSpaced>>, <<>>}
ExtraVariants == {<<>>, <<LblExtra>>}

\* a one-row dataset whose labels are variants of the expected names
LabelledDataset(tid, item, price, extra, reversed) ==
  LET Slot(labels, cell) == [i \in 1..Len(labels) |-> [label |-> labels[i], cell |-> cell]]
      Fixed(j) == <<[label |-> EXPECTED_COLS[j], cell |-> DefaultRow[j]]>>
      columns == Slot(tid, DefaultRow[1]) \o Fixed(2) \o Fixed(3) \o Slot(item, DefaultRow[4])
                   \o Slot(price, DefaultRow[5]) \o Fixed(6) \o Fixed(7) \o Fixed(8)
                   \o Fixed(9) \o Fixed(10) \o Fixed(11) \o Slot(extra, Str(TxtX))
      ordered == IF reversed THEN Reverse(columns) ELSE columns
  IN [cols |-> [j \in 1..Len(ordered) |-> ordered[j].label],
      rows |-> << [j \in 1..Len(ordered) |-> ordered[j].cell] >>]

LabelInputs ==
  {LabelledDataset(t, i, p, e, o) :
     t \in TidVariants, i \in ItemVariants, p \in PriceVariants, e \in ExtraVariants,
     o \in BOOLEAN}

InvalidValuesArgs == {None, Given(<< <<"c","a","s","h">> >>)}

\* ---------------------------------------------------------- the machine
IsUnique(cols) == \A i, j \in 1..Len(cols) : cols[i] = cols[j] => i = j

Init ==
  /\ raw \in LabelInputs \cup DataInputs
  /\ df = NoDataset
  /\ arg = NoDataset
  /\ pc = "raw"
  /\ err = NoErr
  /\ stats = NoStats
  /\ stages = <<>>
  /\ call = "none"
  /\ audit_arg = None

\* rename_columns(df_raw)
RenameColumns ==
  /\ pc = "raw"
  /\ LET r == rename_columns(raw)
     IN /\ df' = r.df
        /\ err' = r.err
        /\ pc' = IF r.ok THEN "renamed" ELSE "failed"
  /\ arg' = raw
  /\ call' = "rename_columns"
  /\ stages' = Append(stages, "rename_columns")
  /\ UNCHANGED <<raw, stats, audit_arg>>

\* data_overview(df, stage='INITIAL'[, invalid_values]): the statistics are
\* returned, the dataset the caller holds stays as it was
DataOverview ==
  /\ pc = "renamed"
  /\ IsUnique(df.cols)
  /\ \E iv \in InvalidValuesArgs :
       /\ stats' = data_overview(df, iv)
       /\ audit_arg' = iv
  /\ arg' = df
  /\ pc' = "audited"
  /\ call' = "data_overview"
  /\ stages' = Append(stages, "data_overview")
  /\ UNCHANGED <<raw, df, err>>

\* df = convert_data_types(df)
ConvertDataTypes ==
  /\ pc \in {"renamed", "audited"}
  /\ IsUnique(df.cols)
  /\ df' = convert_data_types(df)
  /\ arg' = df
  /\ pc' = "coerced"
  /\ call' = "convert_data_types"
  /\ stages' = Append(stages, "convert_data_types")
  /\ UNCHANGED <<raw, err, stats, audit_arg>>

\* df = clean_price_per_unit(df)
CleanPricePerUnit ==
  /\ pc \in {"renamed", "coerced"}
  /\ IsUnique(df.cols)
  /\ df' = clean_price_per_unit(df)
  /\ arg' = df
  /\ pc' = "imputed"
  /\ call' = "clean_price_per_unit"
  /\ stages' = Append(stages, "clean_price_per_unit")
  /\ UNCHANGED <<raw, err, stats, audit_arg>>

\* df_final = transform_data(df_raw), as main() calls it
TransformData ==
  /\ pc = "raw"
  /\ LET r == transform_data(raw)
     IN /\ df' = r.df
        /\ err' = r.err
        /\ stages' = r.stages
        /\ pc' = IF r.ok THEN "imputed" ELSE "failed"
  /\ arg' = raw
  /\ call' = "transform_data"
  /\ UNCHANGED <<raw, stats, audit_arg>>

Next ==
  \/ RenameColumns
  \/ DataOverview
  \/ ConvertDataTypes
  \/ CleanPricePerUnit
  \/ TransformData

Spec == Init /\ [][Next]_vars

\* ------------------------------------------------------------ properties
Max(S) == CHOOSE x \in S : \A y \in S : y <= x
Rows(d) == 1..Len(d.rows)
PipelineOrder == <<"rename_columns", "data_overview", "convert_data_types",
                   "clean_price_per_unit">>
\* the text, trimmed and lower-cased, is one of the sentinel tokens
IsSentinelText(t) == StrLower(Strip(t)) \in Range(DefaultInvalidValues)
\* the Item text has a second underscore-separated segment
HasSecondSegment(c) == c.k = "str" /\ \E i \in 1..Len(c.s) : c.s[i] = "_"
SecondSegment(c) ==
  LET first == CHOOSE i \in 1..Len(c.s) : c.s[i] = "_" /\ \A j \in 1..(i - 1) : c.s[j] # "_"
      rest == SubSeq(c.s, first + 1, Len(c.s))
      stops == {i \in 1..Len(rest) : rest[i] = "_"}
  IN IF stops = {} THEN rest
     ELSE SubSeq(rest, 1, (CHOOSE i \in stops : \A j \in stops : i <= j) - 1)
NormalizedSet(d) == {NormalizeLabel(d.cols[j]) : j \in 1..Len(d.cols)}
AbsentExpected(d) == {e \in Range(EXPECTED_COLS) : e \notin NormalizedSet(d)}

\* C1: when an expected column is absent after the labels are normalized,
\* rename_columns raises its schema error (the ValueError of line 28), the
\* message lists exactly the absent expected columns, each once, and no
\* dataset is returned.
C1_MissingColumnsNamed ==
  (call = "rename_columns" /\ AbsentExpected(arg) # {})
    => /\ pc = "failed"
       /\ err.type = "ValueError"
       /\ Range(err.cols) = AbsentExpected(arg)
       /\ Len(err.cols) = Cardinality(AbsentExpected(arg))
       /\ df = NoDataset
C1_Witness ==
  call = "rename_columns" /\ pc = "failed" /\ Len(err.cols) >= 2
    /\ Range(err.cols) = AbsentExpected(arg)

\* C2: whenever rename_columns returns a dataset, its column list is exactly
\* the 11 expected names, each once, in the declared order.
C2_ExactSchema ==
  (call = "rename_columns" /\ pc = "renamed") => df.cols = EXPECTED_COLS

\* C3: for an input that has every expected column, transform_data runs
\* rename_columns, data_overview, convert_data_types and
\* clean_price_per_unit in that order, each once, and returns the dataset
\* clean_price_per_unit produced.
C3_TransformRunsAllStages ==
  (call = "transform_data" /\ AbsentExpected(arg) = {})
    => /\ pc = "imputed"
       /\ err = NoErr
       /\ stages = PipelineOrder
       /\ df = clean_price_per_unit(convert_data_types(rename_columns(arg).df))

\* C4: clean_price_per_unit leaves every present Price_Per_Unit as it was,
\* and the output has at least as many present prices as the input.
C4_PresentPricesKept ==
  call = "clean_price_per_unit"
    => LET before == ColumnOf(arg, Price_Per_Unit)
           after == ColumnOf(df, Price_Per_Unit)
       IN /\ Len(df.rows) = Len(arg.rows)
          /\ \A r \in Rows(arg) : notna(before[r]) => after[r] = before[r]
          /\ Cardinality({r \in Rows(df) : notna(after[r])})
               >= Cardinality({r \in Rows(arg) : notna(before[r])})
C4_Witness ==
  /\ call = "clean_price_per_unit"
  /\ \E r, q \in Rows(arg) :
       /\ notna(ColumnOf(arg, Price_Per_Unit)[r])
       /\ ColumnOf(df, Price_Per_Unit)[r] = ColumnOf(arg, Price_Per_Unit)[r]
       /\ isna(ColumnOf(arg, Price_Per_Unit)[q])
       /\ notna(ColumnOf(df, Price_Per_Unit)[q])

\* C5: after the stages ran in pipeline order with the default tokens, the
\* dataset handed to clean_price_per_unit has no string-role cell whose
\* text is a sentinel token, and the final dataset has no sentinel text in
\* a string-role or numeric-role column.
C5_SentinelsPurged ==
  (pc = "imputed" /\ stages = PipelineOrder /\ audit_arg = None)
    => /\ \A r \in Rows(arg) : \A j \in 1..Len(arg.cols) :
            arg.cols[j] \in Range(STRING_COLS)
              => ~(arg.rows[r][j].k = "str" /\ IsSentinelText(arg.rows[r][j].s))
       /\ \A r \in Rows(df) : \A j \in 1..Len(df.cols) :
            df.cols[j] \in Range(STRING_COLS) \cup Range(NUMERIC_COLS)
              => ~(df.rows[r][j].k = "str" /\ IsSentinelText(df.rows[r][j].s))

\* C6 (as stated): the label " transaction   id ", three internal spaces,
\* is normalized to Transaction_Id, so it satisfies the schema check.
C6_ThreeSpacesCanonical ==
  call = "rename_columns"
    => \A j \in 1..Len(arg.cols) :
         arg.cols[j] = LblTidThree
           => /\ NormalizeLabel(arg.cols[j]) = Transaction_Id
              /\ Transaction_Id \notin Range(err.cols)

\* C6 (amended): normalization trims the label, title-cases it and turns
\* every internal space into one underscore of its own: " transaction id "
\* becomes Transaction_Id and satisfies the schema check, while
\* " transaction   id " becomes Transaction___Id, which is no expected
\* name, so Transaction_Id is reported missing unless another column
\* supplies it.
C6_EachSpaceOneUnderscore ==
  call = "rename_columns"
    => \A j \in 1..Len(arg.cols) :
         LET label == arg.cols[j]
             out == NormalizeLabel(label)
         IN /\ Len(out) = Len(Strip(label))
            /\ \A i \in 1..Len(out) : (out[i] = "_") = (Strip(label)[i] \in {" ", "_"})
            /\ label = LblTidOne
                 => (out = Transaction_Id /\ Transaction_Id \notin Range(err.cols))
            /\ label = LblTidThree
                 => /\ out = <<"T","r","a","n","s","a","c","t","i","o","n","_","_","_","I","d">>
                    /\ Transaction_Id \notin NormalizedSet(arg)
                         => (pc = "failed" /\ Transaction_Id \in Range(err.cols))
C6_Witness ==
  /\ call = "rename_columns"
  /\ pc = "failed"
  /\ LblTidThree \in Range(arg.cols)
  /\ err.cols = <<Transaction_Id>>

\* the number of cells of a column that satisfy a test
CountCells(d, col, Test(_)) ==
  Cardinality({r \in Rows(d) : \E j \in 1..Len(d.cols) : d.cols[j] = col /\ Test(d.rows[r][j])})
TextOf(c) == IF c.k = "num" THEN FloatToStr(c.n) ELSE c.s
MissingIgnoringCase(c) == isna(c) \/ IsSentinelText(TextOf(c))
MissingExactCase(c) == isna(c) \/ Strip(TextOf(c)) \in Range(DefaultInvalidValues)

\* C7 (as stated): with the default tokens data_overview counts as missing
\* every cell of a string-role or numeric-role column whose text, trimmed
\* and with letter case ignored, is a sentinel token.
C7_CaseInsensitiveEverywhere ==
  (call = "data_overview" /\ audit_arg = None)
    => \A col \in Range(STRING_COLS) \cup Range(NUMERIC_COLS) :
         stats.missing_values[col] = CountCells(arg, col, MissingIgnoringCase)

\* C7 (amended): with the default tokens data_overview counts as missing,
\* besides the true-missing cells, the cells of a string-role column whose
\* trimmed, lower-cased text is a sentinel token, and the cells of a
\* numeric-role column whose trimmed text is a sentinel token exactly as
\* listed (lower case): "unknown" is counted there, "Unknown" and " ERROR "
\* are not.
C7_NumericCaseSensitive ==
  (call = "data_overview" /\ audit_arg = None)
    => /\ \A col \in Range(STRING_COLS) :
            stats.missing_values[col] = CountCells(arg, col, MissingIgnoringCase)
       /\ \A col \in Range(NUMERIC_COLS) :
            stats.missing_values[col] = CountCells(arg, col, MissingExactCase)
       /\ stats.row_count = Len(arg.rows)
C7_Witness ==
  /\ call = "data_overview"
  /\ audit_arg = None
  /\ \E r, q \in Rows(arg) :
       /\ ColumnOf(arg, Price_Per_Unit)[r] = Str(TxtUnknownTitle)
       /\ ColumnOf(arg, Price_Per_Unit)[q] = Str(TxtUnknownLower)
  /\ stats.missing_values[Price_Per_Unit] = 1

\* C8: a row with a missing price and an item number (the second
\* underscore-separated segment of Item) gets the price of the last row, in
\* row order, that has the same item number and a present price, and stays
\* missing when there is no such row.
C8_LastRowWins ==
  call = "clean_price_per_unit"
    => LET item == ColumnOf(arg, Item)
           before == ColumnOf(arg, Price_Per_Unit)
           after == ColumnOf(df, Price_Per_Unit)
       IN \A r \in Rows(arg) :
            (isna(before[r]) /\ HasSecondSegment(item[r]))
              => LET same == {q \in Rows(arg) :
                                /\ HasSecondSegment(item[q])
                                /\ SecondSegment(item[q]) = SecondSegment(item[r])
                                /\ notna(before[q])}
                 IN IF same # {} THEN after[r] = before[Max(same)] ELSE isna(after[r])

\* C9: a row whose Item has no second segment (no underscore, or Item
\* missing) has a missing Item_Number, adds nothing to the price lookup,
\* and a missing price of such a row is still missing in the output.
C9_NoSegmentNeverImputed ==
  call = "clean_price_per_unit"
    => LET item == ColumnOf(arg, Item)
           before == ColumnOf(arg, Price_Per_Unit)
           after == ColumnOf(df, Price_Per_Unit)
       IN \A r \in Rows(arg) :
            ~HasSecondSegment(item[r])
              => /\ isna(ItemNumberCell(item[r]))
                 /\ isna(before[r]) => isna(after[r])

\* C10: no string-role cell of the output of convert_data_types contains a
\* space character.
C10_NoSpaceInStringCells ==
  call = "convert_data_types"
    => \A r \in Rows(df) : \A j \in 1..Len(df.cols) :
         (df.cols[j] \in Range(STRING_COLS) /\ df.rows[r][j].k = "str")
           => \A i \in 1..Len(df.rows[r][j].s) : df.rows[r][j].s[i] # " "

====
